---- MODULE Spec2Model ----
(***************************************************************************)
(* Banking data validator: the /validate endpoint (src/app/main.py) and    *)
(* the validation rules (src/app/validators.py).                           *)
(*                                                                         *)
(* A Python str is modelled as a sequence of characters, a character as a  *)
(* one-character TLA+ string; the non-ASCII decimal digits U+0660 and      *)
(* U+0661 (ARABIC-INDIC DIGIT ZERO and ONE) are the tokens "U+0660" and    *)
(* "U+0661".  The Python object None is the one-element sequence NoneVal,  *)
(* whose element is no character.                                          *)
(***************************************************************************)
EXTENDS Integers, Sequences, FiniteSets, TLC

VARIABLES file, pc, text, rows, all_errors, row_idx, calls, response

vars == <<file, pc, text, rows, all_errors, row_idx, calls, response>>

----------------------------------------------------------------------------
(* Python values and str methods *)

NoneVal == <<"<None>">>

\* str(x): the text "None" for None, x itself for a str
Str(x) == IF x = NoneVal THEN <<"N", "o", "n", "e">> ELSE x

\* bool(x) for a str or None: false for None and for the empty string
Truthy(x) == x # NoneVal /\ x # <<>>

Whitespace == {" ", "\t", "\n", "\r"}

RECURSIVE LStrip(_)
LStrip(s) == IF s # <<>> /\ Head(s) \in Whitespace THEN LStrip(Tail(s)) ELSE s

RECURSIVE RStrip(_)
RStrip(s) ==
    IF s # <<>> /\ s[Len(s)] \in Whitespace
    THEN RStrip(SubSeq(s, 1, Len(s) - 1))
    ELSE s

\* str.strip()
Strip(s) == RStrip(LStrip(s))

\* str.replace(c, "")
RECURSIVE Remove(_, _)
Remove(s, c) ==
    IF s = <<>> THEN <<>>
    ELSE IF Head(s) = c THEN Remove(Tail(s), c)
    ELSE <<Head(s)>> \o Remove(Tail(s), c)

\* str.endswith(suffix)
EndsWith(s, suffix) ==
    /\ Len(s) >= Len(suffix)
    /\ SubSeq(s, Len(s) - Len(suffix) + 1, Len(s)) = suffix

\* dict.get(key, default)
Get(row, key, default) == IF key \in DOMAIN row THEN row[key] ELSE default

AsciiDigits == {"0", "1", "2", "3", "4", "5", "6", "7", "8", "9"}

UnicodeDigits == {"U+0660", "U+0661"}

\* the class \d of a str pattern: every Unicode decimal digit
DecimalDigits == AsciiDigits \cup UnicodeDigits

\* int() of one decimal digit
DigitValue(c) ==
    CASE c \in {"0", "U+0660"} -> 0
      [] c \in {"1", "U+0661"} -> 1
      [] c = "2" -> 2
      [] c = "3" -> 3
      [] c = "4" -> 4
      [] c = "5" -> 5
      [] c = "6" -> 6
      [] c = "7" -> 7
      [] c = "8" -> 8
      [] c = "9" -> 9

\* int() of a sequence of decimal digits
RECURSIVE IntOf(_)
IntOf(s) ==
    IF s = <<>> THEN 0
    ELSE 10 * IntOf(SubSeq(s, 1, Len(s) - 1)) + DigitValue(s[Len(s)])

AllIn(s, chars) == \A i \in 1..Len(s) : s[i] \in chars

UpperLetters ==
    {"A", "B", "C", "D", "E", "F", "I", "N", "R", "S", "T", "U", "X", "Y"}

\* str.lower() of one character
LowerChar(c) ==
    CASE c = "A" -> "a" [] c = "B" -> "b" [] c = "C" -> "c" [] c = "D" -> "d"
      [] c = "E" -> "e" [] c = "F" -> "f" [] c = "I" -> "i" [] c = "N" -> "n"
      [] c = "R" -> "r" [] c = "S" -> "s" [] c = "T" -> "t" [] c = "U" -> "u"
      [] c = "X" -> "x" [] c = "Y" -> "y" [] OTHER -> c

Lower(s) == [i \in 1..Len(s) |-> LowerChar(s[i])]

----------------------------------------------------------------------------
(* float(str): the strings Python's float() converts without ValueError *)

\* digits, single underscores allowed between two digits
IsDigitPart(s) ==
    /\ s # <<>>
    /\ AllIn(s, DecimalDigits \cup {"_"})
    /\ s[1] # "_"
    /\ s[Len(s)] # "_"
    /\ \A i \in 1..(Len(s) - 1) : ~(s[i] = "_" /\ s[i + 1] = "_")

\* digitpart ["." [digitpart]] | "." digitpart
IsMantissa(m) ==
    \E j \in 0..Len(m) :
        LET int == SubSeq(m, 1, j)
            rest == SubSeq(m, j + 1, Len(m))
        IN  \/ rest = <<>> /\ IsDigitPart(int)
            \/ /\ rest # <<>>
               /\ Head(rest) = "."
               /\ \/ IsDigitPart(int) /\ (Tail(rest) = <<>> \/ IsDigitPart(Tail(rest)))
                  \/ int = <<>> /\ IsDigitPart(Tail(rest))

Unsigned(s) == IF s # <<>> /\ Head(s) \in {"+", "-"} THEN Tail(s) ELSE s

\* ("e" | "E") ["+" | "-"] digitpart
IsExponent(e) ==
    /\ e # <<>>
    /\ Head(e) \in {"e", "E"}
    /\ IsDigitPart(Unsigned(Tail(e)))

IsFloatNumber(s) ==
    \E i \in 0..Len(s) :
        /\ IsMantissa(SubSeq(s, 1, i))
        /\ (i = Len(s) \/ IsExponent(SubSeq(s, i + 1, Len(s))))

FloatWords ==
    { <<"i", "n", "f">>,
      <<"i", "n", "f", "i", "n", "i", "t", "y">>,
      <<"n", "a", "n">> }

\* float(s) returns (TRUE) or raises ValueError (FALSE)
FloatParses(s) ==
    LET u == Unsigned(Strip(s))
    IN  Lower(u) \in FloatWords \/ IsFloatNumber(u)

----------------------------------------------------------------------------
(* datetime.strptime(val, "%Y-%m-%d") *)

MinYear == 1

IsLeap(y) == (y % 4 = 0 /\ y % 100 # 0) \/ y % 400 = 0

DaysInMonth(y, m) ==
    IF m = 2 THEN (IF IsLeap(y) THEN 29 ELSE 28)
    ELSE IF m \in {4, 6, 9, 11} THEN 30
    ELSE 31

\* %m on two characters: 1[0-2] | 0[1-9]
MatchesMonthDirective(s) ==
    \/ s[1] = "1" /\ s[2] \in {"0", "1", "2"}
    \/ s[1] = "0" /\ s[2] \in (AsciiDigits \ {"0"})

\* %d on two characters: 3[01] | [12]\d | 0[1-9]
MatchesDayDirective(s) ==
    \/ s[1] = "3" /\ s[2] \in {"0", "1"}
    \/ s[1] \in {"1", "2"} /\ s[2] \in DecimalDigits
    \/ s[1] = "0" /\ s[2] \in (AsciiDigits \ {"0"})

\* the regular expression ^\d{4}-\d{2}-\d{2}$
MatchesDatePattern(s) ==
    /\ Len(s) = 10
    /\ AllIn(SubSeq(s, 1, 4), DecimalDigits)
    /\ s[5] = "-"
    /\ AllIn(SubSeq(s, 6, 7), DecimalDigits)
    /\ s[8] = "-"
    /\ AllIn(SubSeq(s, 9, 10), DecimalDigits)

\* strptime returns (TRUE) or raises ValueError (FALSE), for a value that
\* matched the date pattern
StrptimeParses(s) ==
    /\ MatchesMonthDirective(SubSeq(s, 6, 7))
    /\ MatchesDayDirective(SubSeq(s, 9, 10))
    /\ IntOf(SubSeq(s, 1, 4)) >= MinYear
    /\ IntOf(SubSeq(s, 9, 10))
          <= DaysInMonth(IntOf(SubSeq(s, 1, 4)), IntOf(SubSeq(s, 6, 7)))

----------------------------------------------------------------------------
(* src/app/validators.py *)

\* _error(row, column, message, severity): message is <<format text, value
\* interpolated into it>>
Error(row, column, message, severity) ==
    [row |-> row, column |-> column, message |-> message, severity |-> severity]

MsgMissing == "Required field '{field}' is missing"
MsgEmpty == "Required field '{field}' is empty"
MsgDuplicate == "Duplicate transaction detected: {key}"
MsgAccount == "Invalid format: '{val}' (expected 8-12 digits)"
MsgAmount == "Not a valid number: '{val}'"
MsgDateFormat == "Invalid date format: '{val}' (expected YYYY-MM-DD)"
MsgDateCalendar == "Invalid date: '{val}' is not a real calendar date"
MsgCurrency == "Invalid currency code: '{val}' (expected 3-letter ISO like USD, EUR)"

required == <<"account_number", "transaction_date", "amount">>

\* the loop of check_required_fields over the fields left to check
RECURSIVE RequiredLoop(_, _, _)
RequiredLoop(row, idx, fields) ==
    IF fields = <<>> THEN <<>>
    ELSE LET field == Head(fields)
             errs == IF field \notin DOMAIN row
                     THEN <<Error(idx, field, <<MsgMissing, <<field>>>>, "error")>>
                     ELSE IF row[field] = NoneVal \/ Strip(Str(row[field])) = <<>>
                     THEN <<Error(idx, field, <<MsgEmpty, <<field>>>>, "error")>>
                     ELSE <<>>
         IN  errs \o RequiredLoop(row, idx, Tail(fields))

\* check_required_fields as it would be if it returned at the first error
check_required_fields_first_only(row, idx) ==
    LET errs == RequiredLoop(row, idx, required)
    IN  IF errs = <<>> THEN <<>> ELSE <<Head(errs)>>

check_required_fields(row, idx) == RequiredLoop(row, idx, required)

\* the key check_duplicate_transactions builds for one row
DuplicateKey(row) ==
    << Strip(Str(Get(row, "account_number", <<>>))),
       Strip(Str(Get(row, "transaction_date", <<>>))),
       Strip(Str(Get(row, "amount", <<>>))),
       Strip(Str(Get(row, "currency", <<>>))) >>

\* seen[key] after the rows 1..n: the Counter's count of key
Seen(rws, n, key) == Cardinality({i \in 1..n : DuplicateKey(rws[i]) = key})

\* the loop of check_duplicate_transactions over the rows from..Len(rws)
RECURSIVE DuplicateLoop(_, _)
DuplicateLoop(rws, from) ==
    IF from > Len(rws) THEN <<>>
    ELSE LET key == DuplicateKey(rws[from])
             errs == IF Seen(rws, from, key) > 1
                     THEN <<Error(from, "duplicate_check", <<MsgDuplicate, key>>, "warning")>>
                     ELSE <<>>
         IN  errs \o DuplicateLoop(rws, from + 1)

\* check_duplicate_transactions as it would be with enumerate(rows) counting
\* from 0
check_duplicate_transactions_from_zero(rws) ==
    [k \in 1..Len(DuplicateLoop(rws, 1)) |->
        [DuplicateLoop(rws, 1)[k] EXCEPT !.row = @ - 1]]

check_duplicate_transactions(rws) == DuplicateLoop(rws, 1)

MinAccountDigits == 8
MaxAccountDigits == 12

\* re.match(r"^\d{8,12}$", val)
MatchesAccountPattern(val) ==
    /\ Len(val) >= MinAccountDigits
    /\ Len(val) <= MaxAccountDigits
    /\ AllIn(val, DecimalDigits)

check_account_number_format(row, idx) ==
    LET val == Get(row, "account_number", <<>>)
    IN  IF ~Truthy(val) \/ Strip(Str(val)) = <<>> THEN <<>>
        ELSE IF ~MatchesAccountPattern(Strip(Str(val)))
        THEN <<Error(idx, "account_number", <<MsgAccount, Strip(Str(val))>>, "error")>>
        ELSE <<>>

check_amount_is_numeric(row, idx) ==
    LET val == Get(row, "amount", <<>>)
    IN  IF ~Truthy(val) \/ Strip(Str(val)) = <<>> THEN <<>>
        ELSE IF ~FloatParses(Remove(Strip(Str(val)), ","))
        THEN <<Error(idx, "amount", <<MsgAmount, val>>, "error")>>
        ELSE <<>>

\* check_transaction_date_format as it would be if the calendar check also ran
\* on a value that failed the pattern
check_transaction_date_format_no_return(row, idx) ==
    LET val == Get(row, "transaction_date", <<>>)
    IN  IF ~Truthy(val) \/ Strip(Str(val)) = <<>> THEN <<>>
        ELSE (IF ~MatchesDatePattern(Strip(Str(val)))
              THEN <<Error(idx, "transaction_date",
                           <<MsgDateFormat, Strip(Str(val))>>, "error")>>
              ELSE <<>>)
             \o (IF ~(MatchesDatePattern(Strip(Str(val))) /\ StrptimeParses(Strip(Str(val))))
                 THEN <<Error(idx, "transaction_date",
                              <<MsgDateCalendar, Strip(Str(val))>>, "error")>>
                 ELSE <<>>)

check_transaction_date_format(row, idx) ==
    LET val == Get(row, "transaction_date", <<>>)
    IN  IF ~Truthy(val) \/ Strip(Str(val)) = <<>> THEN <<>>
        ELSE IF ~MatchesDatePattern(Strip(Str(val)))
        THEN <<Error(idx, "transaction_date",
                     <<MsgDateFormat, Strip(Str(val))>>, "error")>>
        ELSE IF ~StrptimeParses(Strip(Str(val)))
        THEN <<Error(idx, "transaction_date",
                     <<MsgDateCalendar, Strip(Str(val))>>, "error")>>
        ELSE <<>>

CurrencyLetters == 3

\* re.match(r"^[A-Z]{3}$", val)
MatchesCurrencyPattern(val) ==
    Len(val) = CurrencyLetters /\ AllIn(val, UpperLetters)

check_currency_code(row, idx) ==
    LET val == Get(row, "currency", <<>>)
    IN  IF ~Truthy(val) \/ Strip(Str(val)) = <<>> THEN <<>>
        ELSE IF ~MatchesCurrencyPattern(Strip(Str(val)))
        THEN <<Error(idx, "currency", <<MsgCurrency, Strip(Str(val))>>, "warning")>>
        ELSE <<>>

\* RULES as it would be with two rules registered the other way round
RULES_swapped ==
    << "check_required_fields", "check_amount_is_numeric",
       "check_account_number_format", "check_transaction_date_format",
       "check_currency_code" >>

\* RULES, by name; ApplyRule calls the function registered under the name
RULES ==
    << "check_required_fields", "check_account_number_format",
       "check_amount_is_numeric", "check_transaction_date_format",
       "check_currency_code" >>

GLOBAL_RULES == <<"check_duplicate_transactions">>

ApplyRule(name, row, idx) ==
    CASE name = "check_required_fields" -> check_required_fields(row, idx)
      [] name = "check_account_number_format" -> check_account_number_format(row, idx)
      [] name = "check_amount_is_numeric" -> check_amount_is_numeric(row, idx)
      [] name = "check_transaction_date_format" -> check_transaction_date_format(row, idx)
      [] name = "check_currency_code" -> check_currency_code(row, idx)

ApplyGlobalRule(name, rws) ==
    CASE name = "check_duplicate_transactions" -> check_duplicate_transactions(rws)

\* the inner loop of validate_rows: every rule of RULES on one row
RECURSIVE RowRulesLoop(_, _, _)
RowRulesLoop(rules, row, idx) ==
    IF rules = <<>> THEN <<>>
    ELSE ApplyRule(Head(rules), row, idx) \o RowRulesLoop(Tail(rules), row, idx)

\* the first loop of validate_rows: every rule of GLOBAL_RULES on all rows
RECURSIVE GlobalRulesLoop(_, _)
GlobalRulesLoop(rules, rws) ==
    IF rules = <<>> THEN <<>>
    ELSE ApplyGlobalRule(Head(rules), rws) \o GlobalRulesLoop(Tail(rules), rws)

----------------------------------------------------------------------------
(* src/app/main.py: csv.DictReader, the reports *)

\* one record of csv.DictReader: the header's columns keyed to the line's
\* fields, None (restval) for the columns a short line leaves out
DictRow(header, line) ==
    [c \in {header[k] : k \in 1..Len(header)} |->
        LET k == CHOOSE k \in 1..Len(header) : header[k] = c
        IN  IF k <= Len(line) THEN line[k] ELSE NoneVal]

\* list(csv.DictReader(...)): one record per line, a line with no field skipped
RECURSIVE DictReader(_, _)
DictReader(header, lines) ==
    IF lines = <<>> THEN <<>>
    ELSE IF Head(lines) = <<>> THEN DictReader(header, Tail(lines))
    ELSE <<DictRow(header, Head(lines))>> \o DictReader(header, Tail(lines))

BadRequest == 400
Ok == 200

\* JSONResponse(status_code=400, content={"error": message})
JSONResponse(message) == [status |-> BadRequest, error |-> message]

\* ValidationReport as it would be if valid looked at the errors of severity
\* "error" only
ValidationReport_errors_only(filename, rws, errors) ==
    [ status |-> Ok,
      file |-> filename,
      total_rows |-> Len(rws),
      errors_found |-> Len(errors),
      valid |-> (\A k \in 1..Len(errors) : errors[k].severity # "error"),
      errors |-> errors ]

\* ValidationReport(file=..., total_rows=..., errors_found=..., valid=..., errors=...)
ValidationReport(filename, rws, errors) ==
    [ status |-> Ok,
      file |-> filename,
      total_rows |-> Len(rws),
      errors_found |-> Len(errors),
      valid |-> (Len(errors) = 0),
      errors |-> errors ]

NoResponse == [status |-> 0]

----------------------------------------------------------------------------
(* The uploads the requests are drawn from *)

MaxRows == 3

Columns == {"account_number", "transaction_date", "amount", "currency"}

Headers ==
    { <<"account_number", "transaction_date", "amount", "currency">>,
      <<"account_number", "transaction_date", "amount">>,
      <<"transaction_date", "amount">>,
      <<"currency", "amount", "transaction_date", "account_number">>,
      <<"currency">> }

AccountSamples ==
    { <<"1", "2", "3", "4", "5", "6", "7", "8">>,
      <<" ", "1", "2", "3", "4", "5", "6", "7", "8", " ">>,
      <<"1", "2", "3", "4", "5", "6", "7", "8", "9", "0", "1", "2">>,
      <<"1", "2", "3", "4", "5", "6", "7", "8", "9", "0", "1", "2", "3">>,
      <<"1", "2", "3", "4", "5", "6", "7">>,
      <<"1", "2", "3", "4", " ", "5", "6", "7", "8">>,
      <<"1", "2", "3", "4", "5", "6", "7", "A">>,
      <<"U+0661", "U+0661", "U+0661", "U+0661", "U+0661", "U+0661", "U+0661", "U+0661">>,
      <<"1", "2", "3", "4", "5", "6", "7", "U+0660">>,
      <<"A", "B", "C">>,
      <<"B", "A", "D">>,
      <<"N", "o", "n", "e">>,
      <<" ">>,
      <<>> }

DateSamples ==
    { <<"2", "0", "2", "4", "-", "0", "1", "-", "1", "5">>,
      <<" ", "2", "0", "2", "4", "-", "0", "1", "-", "1", "5", " ">>,
      <<"2", "0", "2", "4", "-", "0", "2", "-", "3", "0">>,
      <<"2", "0", "2", "4", "-", "0", "2", "-", "2", "9">>,
      <<"2", "0", "2", "3", "-", "0", "2", "-", "2", "9">>,
      <<"1", "9", "0", "0", "-", "0", "2", "-", "2", "9">>,
      <<"2", "0", "0", "0", "-", "0", "2", "-", "2", "9">>,
      <<"2", "0", "2", "4", "-", "0", "4", "-", "3", "1">>,
      <<"2", "0", "2", "4", "-", "1", "2", "-", "3", "1">>,
      <<"2", "0", "2", "4", "-", "1", "3", "-", "0", "1">>,
      <<"2", "0", "2", "4", "-", "0", "0", "-", "1", "0">>,
      <<"2", "0", "2", "4", "-", "0", "1", "-", "0", "0">>,
      <<"2", "0", "2", "4", "-", "0", "1", "-", "3", "2">>,
      <<"0", "0", "0", "0", "-", "0", "1", "-", "0", "1">>,
      <<"U+0661", "U+0660", "U+0660", "U+0661", "-", "0", "1", "-", "1", "5">>,
      <<"2", "0", "2", "4", "-", "U+0660", "U+0661", "-", "1", "5">>,
      <<"2", "0", "2", "4", "-", "0", "1", "-", "1", "U+0661">>,
      <<"0", "1", "-", "1", "5", "-", "2", "0", "2", "4">>,
      <<"2", "0", "2", "4", "-", "1", "-", "1", "5">>,
      <<"2", "0", "2", "4", "/", "0", "1", "/", "1", "5">>,
      <<"2", "0", "2", "4", "-", "0", "1", "-", "1", "5", "T">>,
      <<"n", "o", "t", "-", "a", "-", "d", "a", "t", "e">>,
      <<"N", "o", "n", "e">>,
      <<" ">>,
      <<>> }

AmountSamples ==
    { <<"1", "0", "0", ".", "5", "0">>,
      <<"1", "0", "0">>,
      <<" ", "1", "0", "0", " ">>,
      <<"1", ",", "0", "0", "0", ".", "5", "0">>,
      <<",", " ", "1", "0", "0">>,
      <<"-", "5">>,
      <<"+", ".", "5">>,
      <<"5", ".">>,
      <<".">>,
      <<",">>,
      <<"+">>,
      <<"-", "-", "5">>,
      <<"1", " ", "0">>,
      <<"1", ".", "2", ".", "3">>,
      <<"a", "b", "c">>,
      <<"x", "y", "z">>,
      <<"n", "a", "n">>,
      <<"N", "a", "N">>,
      <<"i", "n", "f">>,
      <<"-", "I", "n", "f", "i", "n", "i", "t", "y">>,
      <<"i", "n", "f", "i", "n", "i", "t">>,
      <<"1", "e", "5">>,
      <<"1", ".", "5", "E", "-", "3">>,
      <<"1", "e">>,
      <<"e", "5">>,
      <<"1", "_", "0", "0", "0">>,
      <<"1", "_", "_", "0">>,
      <<"_", "1">>,
      <<"U+0661", "U+0660">>,
      <<"N", "o", "n", "e">>,
      <<" ">>,
      <<>> }

CurrencySamples ==
    { <<"U", "S", "D">>,
      <<"E", "U", "R">>,
      <<" ", "U", "S", "D", " ">>,
      <<"u", "s">>,
      <<"u", "s", "d">>,
      <<"U", "S">>,
      <<"U", "S", "D", "X">>,
      <<"U", "1", "D">>,
      <<"N", "o", "n", "e">>,
      <<" ">>,
      <<>> }

Samples(column) ==
    CASE column = "account_number" -> AccountSamples
      [] column = "transaction_date" -> DateSamples
      [] column = "amount" -> AmountSamples
      [] column = "currency" -> CurrencySamples

\* a row every rule accepts, and a row that breaks every format rule
GoodFields ==
    [ account_number |-> <<"1", "2", "3", "4", "5", "6", "7", "8">>,
      transaction_date |-> <<"2", "0", "2", "4", "-", "0", "1", "-", "1", "5">>,
      amount |-> <<"1", "0", "0", ".", "5", "0">>,
      currency |-> <<"U", "S", "D">> ]

BadFields ==
    [ account_number |-> <<"B", "A", "D">>,
      transaction_date |-> <<"n", "o", "t", "-", "a", "-", "d", "a", "t", "e">>,
      amount |-> <<"x", "y", "z">>,
      currency |-> <<"u", "s">> ]

\* the field values of one data line: one of the two rows above with one
\* column's value replaced by any sample of that column
FieldChoices ==
    { [b EXCEPT ![cv[1]] = cv[2]] :
        b \in {GoodFields, BadFields},
        cv \in UNION { {<<c, v>> : v \in Samples(c)} : c \in Columns } }

\* the first n fields of a data line under a header
Line(fields, header, n) == [k \in 1..n |-> fields[header[k]]]

Contents(header, lines) == [utf8 |-> TRUE, header |-> header, lines |-> lines]

\* files of one data line
OneLineFiles ==
    UNION { { Contents(h, <<Line(f, h, n)>>) : f \in FieldChoices, n \in 1..Len(h) } :
            h \in Headers }

A8 == <<"1", "2", "3", "4", "5", "6", "7", "8">>
D1 == <<"2", "0", "2", "4", "-", "0", "1", "-", "1", "5">>

\* the data lines of the files of several lines; <<>> is a blank line
ManyLines ==
    { <<A8, D1, <<"1", "0", "0">>, <<"U", "S", "D">>>>,
      <<A8, D1, <<"1", "0", "0">>, <<"E", "U", "R">>>>,
      <<A8, D1, <<" ", "1", "0", "0", " ">>, <<"U", "S", "D">>>>,
      <<A8, D1, <<"2", "0", "0">>, <<"U", "S", "D">>>>,
      <<A8, D1, <<"1", "0", "0">>>>,
      <<A8, D1, <<"1", "0", "0">>, <<>>>>,
      <<A8, D1>>,
      <<A8, D1, <<>>>>,
      <<A8, D1, <<"N", "o", "n", "e">>>>,
      <<<<"B", "A", "D">>, D1, <<"1", "0", "0">>, <<"u", "s">>>>,
      <<>> }

RECURSIVE SeqsUpTo(_, _)
SeqsUpTo(S, n) ==
    IF n = 0 THEN {<<>>}
    ELSE LET shorter == SeqsUpTo(S, n - 1)
         IN  shorter \cup {Append(q, x) : q \in shorter, x \in S}

ManyLineFiles ==
    { Contents(<<"account_number", "transaction_date", "amount", "currency">>, ls) :
        ls \in SeqsUpTo(ManyLines, MaxRows) }

\* bytes that are not UTF-8, and a file of no line at all
NotUtf8 == [utf8 |-> FALSE, header |-> <<>>, lines |-> <<>>]
EmptyFile == Contents(<<>>, <<>>)

AllContents == OneLineFiles \cup ManyLineFiles \cup {NotUtf8, EmptyFile}

CsvName == <<"t", ".", "c", "s", "v">>

Filenames ==
    { CsvName,
      <<".", "c", "s", "v">>,
      <<"t", ".", "t", "x", "t">>,
      <<"t", ".", "c", "s", "v", ".", "t", "x", "t">>,
      <<"t", ".", "C", "S", "V">>,
      <<"c", "s", "v">>,
      <<>>,
      NoneVal }

\* the contents every file name is tried with
ProbeContents ==
    { NotUtf8, EmptyFile,
      Contents(<<"account_number", "transaction_date", "amount">>, <<>>),
      Contents(<<"account_number", "transaction_date", "amount">>, <<<<>>, <<>>>>),
      Contents(<<"account_number", "transaction_date", "amount", "currency">>,
               <<<<A8, D1, <<"1", "0", "0">>, <<"u", "s">>>>>>) }

Uploads ==
    { [filename |-> CsvName, contents |-> c] : c \in AllContents }
    \cup { [filename |-> f, contents |-> c] : f \in Filenames, c \in ProbeContents }

----------------------------------------------------------------------------
(* POST /validate: validate_csv, and validate_rows which it calls *)

NoText == [header |-> <<>>, lines |-> <<>>]

Init ==
    /\ file \in Uploads
    /\ pc = "check_filename"
    /\ text = NoText
    /\ rows = <<>>
    /\ all_errors = <<>>
    /\ row_idx = 0
    /\ calls = 0
    /\ response = NoResponse

\* the file name test as it would be with the suffix "csv", the dot forgotten
FilenameAccepted_no_dot(filename) ==
    Truthy(filename) /\ EndsWith(filename, <<"c", "s", "v">>)

\* if not file.filename or not file.filename.endswith(".csv")
FilenameAccepted(filename) ==
    Truthy(filename) /\ EndsWith(filename, <<".", "c", "s", "v">>)

CheckFilename ==
    /\ pc = "check_filename"
    /\ IF ~FilenameAccepted(file.filename)
       THEN /\ response' = JSONResponse("Only CSV files are accepted")
            /\ pc' = "done"
       ELSE /\ response' = response
            /\ pc' = "decode"
    /\ UNCHANGED <<file, text, rows, all_errors, row_idx, calls>>

\* contents.decode("utf-8")
Decode ==
    /\ pc = "decode"
    /\ IF ~file.contents.utf8
       THEN /\ response' = JSONResponse("File must be UTF-8 encoded")
            /\ pc' = "done"
            /\ text' = text
       ELSE /\ text' = [header |-> file.contents.header, lines |-> file.contents.lines]
            /\ pc' = "parse"
            /\ response' = response
    /\ UNCHANGED <<file, rows, all_errors, row_idx, calls>>

\* rows = list(csv.DictReader(io.StringIO(text))); if not rows: ...
Parse ==
    /\ pc = "parse"
    /\ rows' = DictReader(text.header, text.lines)
    /\ IF rows' = <<>>
       THEN /\ response' = JSONResponse("CSV file is empty or has no data rows")
            /\ pc' = "done"
       ELSE /\ response' = response
            /\ pc' = "validate_rows"
    /\ UNCHANGED <<file, text, all_errors, row_idx, calls>>

\* validate_rows is entered: all_errors = [], then the loop over GLOBAL_RULES
GlobalRules ==
    /\ pc = "validate_rows"
    /\ calls' = calls + 1
    /\ all_errors' = GlobalRulesLoop(GLOBAL_RULES, rows)
    /\ row_idx' = 1
    /\ pc' = "row_rules"
    /\ UNCHANGED <<file, text, rows, response>>

\* one turn of the loop over enumerate(rows, start=1): every rule of RULES
RowRules ==
    /\ pc = "row_rules"
    /\ row_idx <= Len(rows)
    /\ all_errors' = all_errors \o RowRulesLoop(RULES, rows[row_idx], row_idx)
    /\ row_idx' = row_idx + 1
    /\ UNCHANGED <<file, pc, text, rows, calls, response>>

\* validate_rows returns all_errors and validate_csv returns the report
Report ==
    /\ pc = "row_rules"
    /\ row_idx > Len(rows)
    /\ response' = ValidationReport(file.filename, rows, all_errors)
    /\ pc' = "done"
    /\ UNCHANGED <<file, text, rows, all_errors, row_idx, calls>>

Next ==
    \/ CheckFilename
    \/ Decode
    \/ Parse
    \/ GlobalRules
    \/ RowRules
    \/ Report

Spec == Init /\ [][Next]_vars

----------------------------------------------------------------------------
(* Vocabulary of the properties *)

\* the request ended with a report
Reported == pc = "done" /\ response.status = Ok

IsDatasetError(e) == e.message[1] = MsgDuplicate

IsRequiredError(e) == e.message[1] \in {MsgMissing, MsgEmpty}

\* the place in the registry of the rule that wrote the error
RegistryPlace(e) ==
    CASE e.message[1] \in {MsgMissing, MsgEmpty} -> 1
      [] e.message[1] = MsgAccount -> 2
      [] e.message[1] = MsgAmount -> 3
      [] e.message[1] \in {MsgDateFormat, MsgDateCalendar} -> 4
      [] e.message[1] = MsgCurrency -> 5

\* how many errors of the sequence name row i and carry the message
Count(errs, i, column, message) ==
    Cardinality({k \in 1..Len(errs) :
        errs[k].row = i /\ errs[k].column = column /\ errs[k].message[1] = message})

\* the column is in the record with no value, an empty or a whitespace-only one
IsBlank(v) == v = NoneVal \/ \A k \in 1..Len(v) : v[k] \in Whitespace

Has(row, column) == column \in DOMAIN row

\* the column is in the record with a value that is not blank
Filled(row, column) == Has(row, column) /\ ~IsBlank(row[column])

RequiredColumns == {"account_number", "transaction_date", "amount"}

RequiredPlace(column) ==
    CASE column = "account_number" -> 1
      [] column = "transaction_date" -> 2
      [] column = "amount" -> 3

----------------------------------------------------------------------------
\* C1: in every report errors_found is the number of entries of errors and
\* valid is true exactly when errors_found is 0; warnings count like errors,
\* so a report whose entries are all warnings has valid = false.
C1_ReportCounts ==
    Reported =>
        /\ response.errors_found = Len(response.errors)
        /\ response.valid = (response.errors_found = 0)
        /\ (\E k \in 1..Len(response.errors) : response.errors[k].severity = "warning")
              => response.valid = FALSE

\* a report whose only entries are warnings, and which is not valid
C1_Witness ==
    /\ Reported
    /\ response.errors # <<>>
    /\ \A k \in 1..Len(response.errors) : response.errors[k].severity = "warning"
    /\ \E k \in 1..Len(response.errors) : response.errors[k].column = "currency"
    /\ response.valid = FALSE

\* C2: in the error sequence of validate_rows, while it is built and when it
\* is returned, every error of the dataset-wide rule comes before every per-row
\* error, per-row errors come in ascending row position, and within one row in
\* registry order.
C2_ErrorOrder ==
    \A a \in 1..Len(all_errors) : \A b \in 1..Len(all_errors) :
        a < b =>
            LET x == all_errors[a]
                y == all_errors[b]
            IN  /\ IsDatasetError(y) => IsDatasetError(x)
                /\ (~IsDatasetError(x) /\ ~IsDatasetError(y)) =>
                      /\ x.row <= y.row
                      /\ x.row = y.row => RegistryPlace(x) <= RegistryPlace(y)

\* a report with a duplicate error, per-row errors of two rows, and two rules'
\* errors in one row
C2_Witness ==
    /\ Reported
    /\ response.errors = all_errors
    /\ \E k \in 1..Len(all_errors) : IsDatasetError(all_errors[k])
    /\ \E a \in 1..Len(all_errors) : \E b \in 1..Len(all_errors) :
          /\ ~IsDatasetError(all_errors[a]) /\ ~IsDatasetError(all_errors[b])
          /\ all_errors[a].row # all_errors[b].row
    /\ \E a \in 1..Len(all_errors) : \E b \in 1..Len(all_errors) :
          /\ ~IsDatasetError(all_errors[a]) /\ ~IsDatasetError(all_errors[b])
          /\ all_errors[a].row = all_errors[b].row
          /\ RegistryPlace(all_errors[a]) # RegistryPlace(all_errors[b])

\* the required-field errors of the sequence that name row i, in order
RECURSIVE RequiredErrorsOf(_, _)
RequiredErrorsOf(errs, i) ==
    IF errs = <<>> THEN <<>>
    ELSE (IF Head(errs).row = i /\ IsRequiredError(Head(errs)) THEN <<Head(errs)>> ELSE <<>>)
         \o RequiredErrorsOf(Tail(errs), i)

\* C4: for every row and each of the three required columns, the report holds
\* exactly one "is missing" error when the column is not in the record, exactly
\* one "is empty" error when it is there with a blank value, and neither
\* otherwise; the errors come in the order account_number, transaction_date,
\* amount, so a row lacking all three has exactly 3 of them.
C4_RequiredFields ==
    Reported =>
        \A i \in 1..Len(rows) :
            LET es == RequiredErrorsOf(response.errors, i)
            IN  /\ \A c \in RequiredColumns :
                      /\ Count(es, i, c, MsgMissing) = (IF ~Has(rows[i], c) THEN 1 ELSE 0)
                      /\ Count(es, i, c, MsgEmpty)
                            = (IF Has(rows[i], c) /\ IsBlank(rows[i][c]) THEN 1 ELSE 0)
                /\ \A k \in 1..Len(es) : es[k].column \in RequiredColumns
                /\ \A a \in 1..Len(es) : \A b \in 1..Len(es) :
                      a < b => RequiredPlace(es[a].column) < RequiredPlace(es[b].column)
                /\ (\A c \in RequiredColumns : ~Has(rows[i], c)) => Len(es) = 3

\* a reported row that lacks all three required columns, with its 3 errors
C4_Witness ==
    /\ Reported
    /\ \E i \in 1..Len(rows) :
          /\ \A c \in RequiredColumns : ~Has(rows[i], c)
          /\ Len(RequiredErrorsOf(response.errors, i)) = 3

\* the shape 4 digits, hyphen, 2 digits, hyphen, 2 digits; a digit is what
\* the pattern's \d takes for one
CharClass(c) == IF c \in DecimalDigits THEN "d" ELSE IF c = "-" THEN "-" ELSE "?"

HasDateShape(s) ==
    [k \in 1..Len(s) |-> CharClass(s[k])]
        = <<"d", "d", "d", "d", "-", "d", "d", "-", "d", "d">>

MonthLengths == <<31, 28, 31, 30, 31, 30, 31, 31, 30, 31, 30, 31>>

\* a value of the date shape names a day of the calendar: ASCII digits, a
\* year from 1, a month 1..12 and a day of that month
IsRealCalendarDate(s) ==
    LET y == IntOf(SubSeq(s, 1, 4))
        m == IntOf(SubSeq(s, 6, 7))
        d == IntOf(SubSeq(s, 9, 10))
        leap == IF y % 100 = 0 THEN y % 400 = 0 ELSE y % 4 = 0
    IN  /\ \A k \in {1, 2, 3, 4, 6, 7, 9, 10} : s[k] \in AsciiDigits
        /\ y >= 1
        /\ m \in 1..12
        /\ d >= 1
        /\ d <= (IF m = 2 /\ leap THEN 29 ELSE MonthLengths[m])

\* C5: for every row the report holds at most one transaction_date_format
\* error: none when transaction_date is absent or blank; the "Invalid date
\* format" error alone when the trimmed value has not the date shape; and the
\* "not a real calendar date" error only when the trimmed value has the shape
\* and names no real calendar date.
C5_DateFormat ==
    Reported =>
        \A i \in 1..Len(rows) :
            LET nformat == Count(response.errors, i, "transaction_date", MsgDateFormat)
                ncalendar == Count(response.errors, i, "transaction_date", MsgDateCalendar)
            IN  /\ nformat + ncalendar <= 1
                /\ ~Filled(rows[i], "transaction_date") => nformat + ncalendar = 0
                /\ (Filled(rows[i], "transaction_date")
                      /\ ~HasDateShape(Strip(rows[i]["transaction_date"])))
                      => (nformat = 1 /\ ncalendar = 0)
                /\ ncalendar = 1 =>
                      /\ Filled(rows[i], "transaction_date")
                      /\ HasDateShape(Strip(rows[i]["transaction_date"]))
                      /\ ~IsRealCalendarDate(Strip(rows[i]["transaction_date"]))

\* a report with a "not a real calendar date" error for a row, and no format
\* error for it
C5_Witness ==
    /\ Reported
    /\ \E i \in 1..Len(rows) :
          /\ Count(response.errors, i, "transaction_date", MsgDateCalendar) = 1
          /\ Count(response.errors, i, "transaction_date", MsgDateFormat) = 0
          /\ HasDateShape(Strip(rows[i]["transaction_date"]))

\* the data lines of the upload that hold at least one field
DataLines == {k \in 1..Len(file.contents.lines) : file.contents.lines[k] # <<>>}

NameEndsInCsv ==
    /\ file.filename # NoneVal
    /\ Len(file.filename) >= 4
    /\ \A k \in 1..4 :
          file.filename[Len(file.filename) - 4 + k] = <<".", "c", "s", "v">>[k]

\* C8: a request ends with status 400 and a message, validate_rows not called,
\* when the file name does not end in ".csv", else when the content is not
\* UTF-8, else when the CSV has no data row; in every other case it ends with a
\* report whose total_rows is the number of data rows, validate_rows called
\* once.  validate_rows is never called before the three checks have passed.
C8_RequestFailures ==
    /\ pc = "done" =>
          IF ~NameEndsInCsv
          THEN response = JSONResponse("Only CSV files are accepted") /\ calls = 0
          ELSE IF ~file.contents.utf8
          THEN response = JSONResponse("File must be UTF-8 encoded") /\ calls = 0
          ELSE IF DataLines = {}
          THEN response = JSONResponse("CSV file is empty or has no data rows") /\ calls = 0
          ELSE /\ response.status = Ok
               /\ response.total_rows = Cardinality(DataLines)
               /\ response.file = file.filename
               /\ response.errors = all_errors
               /\ calls = 1
    /\ calls > 0 => (NameEndsInCsv /\ file.contents.utf8 /\ DataLines # {})
    /\ pc # "done" => response = NoResponse

\* a request refused for its blank lines only: a .csv name, UTF-8, lines, no rows
C8_Witness ==
    /\ pc = "done"
    /\ response.status = BadRequest
    /\ NameEndsInCsv
    /\ file.contents.utf8
    /\ file.contents.lines # <<>>
    /\ calls = 0

\* the key of the duplicate check as the rule is documented: the three
\* trimmed values, the empty string for a column without a value
DocumentedKeyPart(row, c) ==
    IF ~Has(row, c) \/ row[c] = NoneVal THEN <<>> ELSE Strip(row[c])

DocumentedKey(row) ==
    << DocumentedKeyPart(row, "account_number"),
       DocumentedKeyPart(row, "transaction_date"),
       DocumentedKeyPart(row, "amount") >>

HasEarlierTwin(i) == \E j \in 1..(i - 1) : DocumentedKey(rows[j]) = DocumentedKey(rows[i])

\* row i breaks no per-row rule
IsCleanRow(i) == \A k \in 1..Len(RULES) : ApplyRule(RULES[k], rows[i], i) = <<>>

\* C9: every error of a report names a row 1..number of rows, the row that
\* triggered it: a row that breaks no per-row rule and whose key did not occur
\* in an earlier row is named by no error, whatever the other rows hold.
C9_RowNumbers ==
    Reported =>
        /\ \A k \in 1..Len(response.errors) : response.errors[k].row \in 1..Len(rows)
        /\ \A i \in 1..Len(rows) :
              (IsCleanRow(i) /\ ~HasEarlierTwin(i))
                 => \A k \in 1..Len(response.errors) : response.errors[k].row # i
        /\ \A k \in 1..Len(response.errors) :
              LET e == response.errors[k]
              IN  IF IsDatasetError(e)
                  THEN \E j \in 1..(e.row - 1) : DuplicateKey(rows[j]) = DuplicateKey(rows[e.row])
                  ELSE ~IsCleanRow(e.row)

\* a report on three rows whose errors all name row 2
C9_Witness ==
    /\ Reported
    /\ Len(rows) = 3
    /\ response.errors # <<>>
    /\ \A k \in 1..Len(response.errors) : response.errors[k].row = 2

\* how many duplicate errors of the report name row i
Duplicates(i) == Count(response.errors, i, "duplicate_check", MsgDuplicate)

\* the three key columns of the row hold a str each
HasKeyStrings(row) == \A c \in RequiredColumns : Has(row, c) /\ row[c] # NoneVal

\* C3: among the rows that share (account_number, transaction_date, amount)
\* after trimming, whatever their currency, the first gets no duplicate error
\* and every later one exactly one, naming its own position: N - 1 in all.
\* (Stated for the files whose rows all hold a str in the three key columns
\* and in currency.)
C3_DuplicatesByThreeColumns ==
    (Reported /\ \A i \in 1..Len(rows) :
        HasKeyStrings(rows[i]) /\ Get(rows[i], "currency", <<>>) # NoneVal) =>
        \A i \in 1..Len(rows) :
            Duplicates(i)
                = (IF \E j \in 1..(i - 1) : DocumentedKey(rows[j]) = DocumentedKey(rows[i])
                   THEN 1 ELSE 0)

IsAsciiAccount(s) == Len(s) \in 8..12 /\ \A k \in 1..Len(s) : s[k] \in AsciiDigits

\* C6: for every row whose account_number is there and not blank, the report
\* holds the "Invalid format" error exactly when the trimmed value is not 8 to
\* 12 ASCII digits.
C6_AccountAsciiDigits ==
    Reported =>
        \A i \in 1..Len(rows) :
            Filled(rows[i], "account_number") =>
                (Count(response.errors, i, "account_number", MsgAccount) = 1
                    <=> ~IsAsciiAccount(Strip(rows[i]["account_number"])))

\* standard decimal notation: an optional sign, then digits with at most one
\* decimal point among them (".5" and "5." are let through)
IsDecimalNotation(s) ==
    LET u == IF s # <<>> /\ s[1] \in {"+", "-"} THEN SubSeq(s, 2, Len(s)) ELSE s
    IN  /\ \E k \in 1..Len(u) : u[k] \in DecimalDigits
        /\ \A k \in 1..Len(u) : u[k] \in DecimalDigits \cup {"."}
        /\ Cardinality({k \in 1..Len(u) : u[k] = "."}) <= 1

\* C7: for every row whose amount is there and not blank, the report holds the
\* "Not a valid number" error exactly when the value, trimmed and its commas
\* removed, is not in standard decimal notation.
C7_AmountDecimalNotation ==
    Reported =>
        \A i \in 1..Len(rows) :
            Filled(rows[i], "amount") =>
                (Count(response.errors, i, "amount", MsgAmount) = 1
                    <=> ~IsDecimalNotation(Strip(Remove(Strip(rows[i]["amount"]), ","))))

\* the currency columns of the two rows hold the same
SameCurrency(r1, r2) == Get(r1, "currency", <<>>) = Get(r2, "currency", <<>>)

\* C10: a key column without a value counts as the empty string in the key of
\* the duplicate check: the row is a duplicate of an earlier row exactly when
\* that row's three key values, so read, are its own.  (Stated for rows of one
\* currency value.)
C10_MissingFieldIsEmpty ==
    Reported =>
        \A i \in 1..Len(rows) :
            (\A j \in 1..(i - 1) : SameCurrency(rows[j], rows[i])) =>
                (Duplicates(i) = 1 <=> HasEarlierTwin(i))

====
